---- MODULE Spec2Model ----
(***************************************************************************)
(* Model of backend/app.py: a FastAPI application with two routes,         *)
(* GET /health and POST /chat, served by one uvicorn process (one asyncio  *)
(* event loop).  POST /chat validates the message, calls                   *)
(* litellm.completion and maps every exception to an HTTP 500.             *)
(*                                                                         *)
(* Spec is the server with several requests open at once; SpecHandler     *)
(* takes one request through the handlers over the full input sets.        *)
(*                                                                         *)
(* Python strings that the code inspects (the request message, which is    *)
(* stripped) are sequences of one-character strings; strings the code only *)
(* passes on or concatenates are TLA+ strings.  Provider values whose      *)
(* Python type matters are tagged records [type |-> ..., val |-> ...].     *)
(***************************************************************************)
EXTENDS Naturals, Sequences, FiniteSets, TLC

(* ------------------------------ bounds -------------------------------- *)
MaxRequests == 2
MaxMsgLen == 2
MaxChoices == 2

Requests == 1..MaxRequests

(* ------------------------- input alphabets ---------------------------- *)
Whitespace == {" "}
Chars == Whitespace \cup {"H"}

RECURSIVE SeqsUpTo(_, _)
SeqsUpTo(S, n) ==
  IF n = 0 THEN {<<>>}
  ELSE LET shorter == SeqsUpTo(S, n - 1)
       IN  shorter \cup {Append(s, c) : s \in {t \in shorter : Len(t) = n - 1}, c \in S}

Messages == SeqsUpTo(Chars, MaxMsgLen)

EnvNames == {"LLM_API_BASE", "LLM_API_KEY", "LLM_MODEL"}
EnvValues ==
  [n \in EnvNames |->
     CASE n = "LLM_API_BASE" -> {"", "http://llm:4000"}
       [] n = "LLM_API_KEY"  -> {"sk-test"}
       [] n = "LLM_MODEL"    -> {"gpt-4"}]
Environs ==
  UNION {{e \in [S -> UNION {EnvValues[n] : n \in EnvNames}] :
            \A n \in S : e[n] \in EnvValues[n]} : S \in SUBSET EnvNames}

(* What the provider object can hold in choices[i].message: a content     *)
(* attribute that is a str, a content attribute that is None, or no       *)
(* content attribute at all.                                              *)
StrContent(s) == [type |-> "str", val |-> s]
NoneContent == [type |-> "NoneType"]
ProviderMessages ==
  {[content |-> StrContent("Hello!")], [content |-> NoneContent],
   [role |-> "assistant"]}
Choices == {[message |-> m] : m \in ProviderMessages}
ProviderErrors == {"rate limited"}
Outcomes ==
  {[kind |-> "raise", text |-> t] : t \in ProviderErrors}
    \cup {[kind |-> "return", choices |-> cs] : cs \in SeqsUpTo(Choices, MaxChoices)}

(* Inputs of the server specification, where several requests are open   *)
(* at once: blank, plain and padded messages, and a provider reply for   *)
(* each way through lines 58-63.                                          *)
ProbeMessages == {<<>>, <<" ">>, <<"H">>, <<" ", "H">>}
ProbeOutcomes ==
  {[kind |-> "raise", text |-> "rate limited"],
   [kind |-> "return", choices |-> <<>>],
   [kind |-> "return", choices |-> <<[message |-> [content |-> StrContent("Hello!")]]>>],
   [kind |-> "return", choices |-> <<[message |-> [content |-> NoneContent]]>>],
   [kind |-> "return", choices |-> <<[message |-> [role |-> "assistant"]]>>],
   [kind |-> "return",
    choices |-> <<[message |-> [content |-> StrContent("Hello!")]],
                  [message |-> [content |-> NoneContent]]>>]}

(* ------------------------------ state --------------------------------- *)
VARIABLES
  environ,        \* the process environment at startup
  LLM_API_BASE,   \* module globals read from the environment
  LLM_API_KEY,
  LLM_MODEL,
  route,          \* route[r]: "none" (not yet received), "/health" or "/chat"
  message,        \* message[r]: ChatRequest.message of a /chat request
  pc,             \* pc[r]: "idle", "arrived", "in_completion", "done"
  loop,           \* request whose handler occupies the event loop, 0 if none
  provider_calls, \* provider_calls[r]: kwargs of each litellm.completion call made for r
  outcome,        \* outcome[r]: what litellm.completion did for request r
  sent,           \* sent[r]: HTTP responses written for request r
  stdout          \* stdout[r]: lines printed while handling request r

vars == <<environ, LLM_API_BASE, LLM_API_KEY, LLM_MODEL, route, message, pc,
          loop, provider_calls, outcome, sent, stdout>>

config == <<environ, LLM_API_BASE, LLM_API_KEY, LLM_MODEL>>

NoOutcome == [kind |-> "none"]

(* --------------------------- pure helpers ----------------------------- *)
getenv(env, name, default) == IF name \in DOMAIN env THEN env[name] ELSE default

RECURSIVE lstrip(_)
lstrip(s) ==
  IF s = <<>> THEN s
  ELSE IF Head(s) \in Whitespace THEN lstrip(Tail(s)) ELSE s

RECURSIVE rstrip(_)
rstrip(s) ==
  IF s = <<>> THEN s
  ELSE IF s[Len(s)] \in Whitespace THEN rstrip(SubSeq(s, 1, Len(s) - 1)) ELSE s

strip(s) == rstrip(lstrip(s))

\* truth value of a Python str held as a TLA+ string (line 55)
Truthy(s) == s # ""

\* truth value of a Python str held as a sequence of characters (line 44)
TruthySeq(s) == Len(s) > 0

\* str(e) of an HTTPException
HTTPExceptionStr(status, detail) == ToString(status) \o ": " \o detail

HTTPException(status, detail) ==
  [status |-> status, body |-> [detail |-> detail]]

\* the exception raised by line 45
EmptyMessageError == [status |-> 400, detail |-> "Message cannot be empty"]

BuildKwargs_content_stripped(m) ==
  LET base == [model |-> LLM_MODEL,
               messages |-> <<[role |-> "user", content |-> strip(m)]>>,
               api_key |-> LLM_API_KEY]
  IN  IF Truthy(LLM_API_BASE)
      THEN [k \in {"model", "messages", "api_key", "api_base"} |->
              IF k = "api_base" THEN LLM_API_BASE ELSE base[k]]
      ELSE base

BuildKwargs_always_api_base(m) ==
  LET base == [model |-> LLM_MODEL,
               messages |-> <<[role |-> "user", content |-> m]>>,
               api_key |-> LLM_API_KEY]
  IN  [k \in {"model", "messages", "api_key", "api_base"} |->
         IF k = "api_base" THEN LLM_API_BASE ELSE base[k]]

\* lines 48-56: the keyword arguments of litellm.completion
BuildKwargs(m) ==
  LET base == [model |-> LLM_MODEL,
               messages |-> <<[role |-> "user", content |-> m]>>,
               api_key |-> LLM_API_KEY]
  IN  IF Truthy(LLM_API_BASE)
      THEN [k \in {"model", "messages", "api_key", "api_base"} |->
              IF k = "api_base" THEN LLM_API_BASE ELSE base[k]]
      ELSE base

Raised(t) == [kind |-> "raise", text |-> t]
Returned(v) == [kind |-> "return", val |-> v]

Extract_last_choice(o) ==
  IF o.kind = "raise" THEN Raised(o.text)
  ELSE IF Len(o.choices) = 0 THEN Raised("list index out of range")
  ELSE LET m == o.choices[Len(o.choices)].message
       IN  IF "content" \notin DOMAIN m
           THEN Raised("'Message' object has no attribute 'content'")
           ELSE IF m.content.type # "str"
           THEN Raised("1 validation error for ChatResponse")
           ELSE Returned(m.content.val)

\* lines 58-63: the provider call's result, choices[0].message.content and
\* the construction of ChatResponse; each can raise
Extract(o) ==
  IF o.kind = "raise" THEN Raised(o.text)
  ELSE IF Len(o.choices) = 0 THEN Raised("list index out of range")
  ELSE LET m == o.choices[1].message
       IN  IF "content" \notin DOMAIN m
           THEN Raised("'Message' object has no attribute 'content'")
           ELSE IF m.content.type # "str"
           THEN Raised("1 validation error for ChatResponse")
           ELSE Returned(m.content.val)

CallProvider_retry(calls, kwargs) == Append(Append(calls, kwargs), kwargs)

\* line 58: one call of litellm.completion with the keyword arguments
CallProvider(calls, kwargs) == Append(calls, kwargs)

\* line 66
LogLine(text) == "Error calling LLM: " \o text

ServerError_generic(text) == HTTPException(500, "Internal Server Error")

\* lines 67-70
ServerError(text) ==
  HTTPException(500, "Failed to get response from LLM: " \o text)

ChatResponse_cached(text) ==
  [status |-> 200,
   body |-> [response |-> IF \E q \in Requests : pc[q] = "done" /\ route[q] = "/chat"
                          THEN "" ELSE text]]

\* line 63, serialised through response_model=ChatResponse (line 38)
ChatResponse(text) == [status |-> 200, body |-> [response |-> text]]

health_check_needs_key ==
  IF Truthy(LLM_API_KEY)
  THEN [status |-> 200, body |-> [status |-> "healthy"]]
  ELSE [status |-> 503, body |-> [status |-> "unhealthy"]]

\* lines 33-36
health_check == [status |-> 200, body |-> [status |-> "healthy"]]

(* ------------------------------ Init ---------------------------------- *)
Init ==
  /\ environ \in Environs
  /\ LLM_API_BASE = getenv(environ, "LLM_API_BASE", "")
  /\ LLM_API_KEY = getenv(environ, "LLM_API_KEY", "")
  /\ LLM_MODEL = getenv(environ, "LLM_MODEL", "gpt-3.5-turbo")
  /\ route = [r \in Requests |-> "none"]
  /\ message = [r \in Requests |-> <<>>]
  /\ pc = [r \in Requests |-> "idle"]
  /\ loop = 0
  /\ provider_calls = [r \in Requests |-> <<>>]
  /\ outcome = [r \in Requests |-> NoOutcome]
  /\ sent = [r \in Requests |-> <<>>]
  /\ stdout = [r \in Requests |-> <<>>]

(* ----------------------------- actions -------------------------------- *)
\* A client's request reaches the server socket.  Requests are numbered in
\* the order of arrival.  The kernel accepts connections whether or not the
\* event loop is busy.
ArriveHealth(r) ==
  /\ pc[r] = "idle"
  /\ \A q \in Requests : q < r => pc[q] # "idle"
  /\ route' = [route EXCEPT ![r] = "/health"]
  /\ pc' = [pc EXCEPT ![r] = "arrived"]
  /\ UNCHANGED <<config, message, loop, provider_calls, outcome, sent, stdout>>

ArriveChat(r, m) ==
  /\ pc[r] = "idle"
  /\ \A q \in Requests : q < r => pc[q] # "idle"
  /\ route' = [route EXCEPT ![r] = "/chat"]
  /\ message' = [message EXCEPT ![r] = m]
  /\ pc' = [pc EXCEPT ![r] = "arrived"]
  /\ UNCHANGED <<config, loop, provider_calls, outcome, sent, stdout>>

\* The event loop runs health_check for request r (lines 33-36).
HealthCheck(r) ==
  /\ loop = 0
  /\ pc[r] = "arrived"
  /\ route[r] = "/health"
  /\ sent' = [sent EXCEPT ![r] = Append(@, health_check)]
  /\ pc' = [pc EXCEPT ![r] = "done"]
  /\ UNCHANGED <<config, route, message, loop, provider_calls, outcome, stdout>>

\* The event loop runs chat for request r up to and including the entry
\* into litellm.completion (lines 43-58).  A blank message raises the
\* HTTPException of line 45 inside the try block; the handler of line 65
\* catches it like any other Exception.  The call of line 58 is an ordinary
\* (not awaited) call, so the coroutine keeps the event loop while the
\* provider works.
ChatBegin(r) ==
  /\ loop = 0
  /\ pc[r] = "arrived"
  /\ route[r] = "/chat"
  /\ IF ~TruthySeq(strip(message[r]))
     THEN LET e == HTTPExceptionStr(EmptyMessageError.status, EmptyMessageError.detail)
          IN  /\ stdout' = [stdout EXCEPT ![r] = Append(@, LogLine(e))]
              /\ sent' = [sent EXCEPT ![r] = Append(@, ServerError(e))]
              /\ pc' = [pc EXCEPT ![r] = "done"]
              /\ UNCHANGED <<loop, provider_calls>>
     ELSE /\ provider_calls' =
               [provider_calls EXCEPT ![r] = CallProvider(@, BuildKwargs(message[r]))]
          /\ pc' = [pc EXCEPT ![r] = "in_completion"]
          /\ loop' = r
          /\ UNCHANGED <<sent, stdout>>
  /\ UNCHANGED <<config, route, message, outcome>>

\* litellm.completion returns or raises, and chat runs to its end
\* (lines 58-70).
ChatReturn(r, o) ==
  /\ pc[r] = "in_completion"
  /\ loop = r
  /\ outcome' = [outcome EXCEPT ![r] = o]
  /\ LET x == Extract(o)
     IN  IF x.kind = "return"
         THEN /\ sent' = [sent EXCEPT ![r] = Append(@, ChatResponse(x.val))]
              /\ UNCHANGED stdout
         ELSE /\ stdout' = [stdout EXCEPT ![r] = Append(@, LogLine(x.text))]
              /\ sent' = [sent EXCEPT ![r] = Append(@, ServerError(x.text))]
  /\ pc' = [pc EXCEPT ![r] = "done"]
  /\ loop' = 0
  /\ UNCHANGED <<config, route, message, provider_calls>>

\* The server: up to MaxRequests requests open at once.
Next ==
  \/ \E r \in Requests : ArriveHealth(r)
  \/ \E r \in Requests, m \in ProbeMessages : ArriveChat(r, m)
  \/ \E r \in Requests : HealthCheck(r)
  \/ \E r \in Requests : ChatBegin(r)
  \/ \E r \in Requests, o \in ProbeOutcomes : ChatReturn(r, o)

Spec == Init /\ [][Next]_vars

\* One request through the handlers, over every message of up to MaxMsgLen
\* characters and every provider reply of up to MaxChoices choices.
NextHandler ==
  \/ ArriveHealth(1)
  \/ \E m \in Messages : ArriveChat(1, m)
  \/ HealthCheck(1)
  \/ ChatBegin(1)
  \/ \E o \in Outcomes : ChatReturn(1, o)

SpecHandler == Init /\ [][NextHandler]_vars

(* ------------------------- derived predicates ------------------------- *)
IsChat(r) == route[r] = "/chat"
IsHealth(r) == route[r] = "/health"
Done(r) == pc[r] = "done"
Blank(r) == \A i \in DOMAIN message[r] : message[r][i] \in Whitespace

(* ------------------------------ claims -------------------------------- *)

\* C1: every POST /chat whose message is empty or only whitespace is
\* answered with HTTP 400 and detail exactly "Message cannot be empty".
C1_BlankMessageGets400 ==
  \A r \in Requests :
    IsChat(r) /\ Done(r) /\ Blank(r) =>
      sent[r] = <<[status |-> 400, body |-> [detail |-> "Message cannot be empty"]]>>

C1_BlankMessageHandled ==
  \E r \in Requests : IsChat(r) /\ Done(r) /\ Blank(r)

\* C2: for a non-blank message, if the provider call or the extraction of
\* its result raises (the provider raises, the choices list is empty, the
\* first choice has no content or a null content), the answer is HTTP 500
\* with detail "Failed to get response from LLM: " followed by the
\* exception's text.
C2_ProviderFailureIs500 ==
  \A r \in Requests :
    IsChat(r) /\ Done(r) /\ ~Blank(r) =>
      LET o == outcome[r]
          reply(t) == <<[status |-> 500,
                         body |-> [detail |-> "Failed to get response from LLM: " \o t]]>>
      IN  /\ o.kind = "raise" => sent[r] = reply(o.text)
          /\ o.kind = "return" /\ o.choices = <<>> =>
               sent[r] = reply("list index out of range")
          /\ o.kind = "return" /\ o.choices # <<>>
               /\ "content" \notin DOMAIN o.choices[1].message =>
               sent[r] = reply("'Message' object has no attribute 'content'")
          /\ o.kind = "return" /\ o.choices # <<>>
               /\ "content" \in DOMAIN o.choices[1].message
               /\ o.choices[1].message.content = NoneContent =>
               sent[r] = reply("1 validation error for ChatResponse")

C2_NullContentAnswered ==
  \E r \in Requests :
    /\ IsChat(r) /\ Done(r) /\ ~Blank(r) /\ outcome[r].kind = "return"
    /\ Len(outcome[r].choices) >= 2
    /\ outcome[r].choices[1].message = [content |-> NoneContent]
    /\ outcome[r].choices[2].message = [content |-> StrContent("Hello!")]
    /\ sent[r][1].status = 500

C4_OtherRequestsProceed ==
  \A r, q \in Requests :
    pc[r] = "in_completion" /\ pc[q] = "arrived" =>
      ENABLED (HealthCheck(q) \/ ChatBegin(q))

C4_RequestArrivedDuringCall ==
  \E r, q \in Requests : pc[r] = "in_completion" /\ pc[q] = "arrived"

\* C5: every answer to GET /health is HTTP 200 with body
\* {"status": "healthy"}, for every configuration and whatever happened to
\* earlier /chat requests; handling it calls no provider and prints nothing.
C5_HealthAlwaysHealthy ==
  \A r \in Requests :
    IsHealth(r) =>
      /\ provider_calls[r] = <<>>
      /\ stdout[r] = <<>>
      /\ outcome[r] = NoOutcome
      /\ Done(r) => sent[r] = <<[status |-> 200, body |-> [status |-> "healthy"]]>>
      /\ ~Done(r) => sent[r] = <<>>

C5_HealthAfterFailedChat ==
  \E r, q \in Requests :
    /\ IsHealth(r) /\ Done(r)
    /\ IsChat(q) /\ Done(q) /\ sent[q][1].status = 500
    /\ "LLM_API_KEY" \notin DOMAIN environ

\* C6: a blank message is not logged: handling it prints no line, and a
\* line "Error calling LLM: ..." is printed only when the provider call
\* (or the extraction of its result) failed.
C6_ValidationErrorNotLogged ==
  \A r \in Requests :
    /\ IsChat(r) /\ Done(r) /\ Blank(r) => stdout[r] = <<>>
    /\ stdout[r] # <<>> => Len(provider_calls[r]) >= 1 /\ outcome[r] # NoOutcome

C6_BlankMessageLogged ==
  \E r \in Requests : IsChat(r) /\ Done(r) /\ Blank(r) /\ stdout[r] # <<>>

\* C7: a provider call carries no api_base argument when LLM_API_BASE is
\* unset or empty, and carries api_base equal to LLM_API_BASE, unchanged,
\* when it is a non-empty string.
C7_ApiBaseOnlyWhenSet ==
  \A r \in Requests :
    \A i \in DOMAIN provider_calls[r] :
      LET k == provider_calls[r][i]
      IN  IF "LLM_API_BASE" \notin DOMAIN environ
          THEN "api_base" \notin DOMAIN k
          ELSE IF environ["LLM_API_BASE"] = ""
          THEN "api_base" \notin DOMAIN k
          ELSE "api_base" \in DOMAIN k /\ k["api_base"] = environ["LLM_API_BASE"]

C7_CallWithEmptyApiBase ==
  \E r \in Requests :
    /\ provider_calls[r] # <<>>
    /\ "LLM_API_BASE" \in DOMAIN environ
    /\ environ["LLM_API_BASE"] = ""

\* C8: nothing is retried: a request calls the provider at most once,
\* exactly once when its message is not blank (also when the call fails)
\* and never when it is blank; a request that fails gets exactly one
\* response, with a non-2xx status.
C8_NoRetry ==
  \A r \in Requests :
    /\ Len(provider_calls[r]) <= 1
    /\ Len(sent[r]) <= 1
    /\ IsChat(r) /\ Blank(r) => provider_calls[r] = <<>>
    /\ IsChat(r) /\ ~Blank(r) /\ pc[r] \in {"in_completion", "done"} =>
         Len(provider_calls[r]) = 1
    /\ IsChat(r) /\ Done(r)
         /\ (Blank(r) \/ outcome[r].kind = "raise" \/ outcome[r].choices = <<>>
               \/ "content" \notin DOMAIN outcome[r].choices[1].message
               \/ outcome[r].choices[1].message.content = NoneContent) =>
         Len(sent[r]) = 1 /\ sent[r][1].status \notin 200..299

C8_FailedCallAnswered ==
  \E r \in Requests :
    IsChat(r) /\ Done(r) /\ ~Blank(r) /\ outcome[r].kind = "raise"
      /\ Len(provider_calls[r]) = 1

\* C9: two POST /chat requests with the same message and the same provider
\* answer get identical responses, whatever was handled before them, and
\* the configuration stays what startup read from the environment.
C9_SameRequestSameResponse ==
  /\ LLM_API_BASE = (IF "LLM_API_BASE" \in DOMAIN environ THEN environ["LLM_API_BASE"] ELSE "")
  /\ LLM_API_KEY = (IF "LLM_API_KEY" \in DOMAIN environ THEN environ["LLM_API_KEY"] ELSE "")
  /\ LLM_MODEL = (IF "LLM_MODEL" \in DOMAIN environ THEN environ["LLM_MODEL"] ELSE "gpt-3.5-turbo")
  /\ \A r, q \in Requests :
       /\ IsChat(r) /\ IsChat(q) /\ Done(r) /\ Done(q)
       /\ message[r] = message[q] /\ outcome[r] = outcome[q]
       => sent[r] = sent[q] /\ provider_calls[r] = provider_calls[q]

C9_RepeatedValidRequest ==
  \E r, q \in Requests :
    /\ r # q /\ IsChat(r) /\ IsChat(q) /\ Done(r) /\ Done(q)
    /\ message[r] = message[q] /\ outcome[r] = outcome[q]
    /\ sent[r][1].status = 200

\* C10: the provider is called with model = LLM_MODEL, api_key =
\* LLM_API_KEY and exactly one message, of role "user", whose content is
\* the request's message as received, leading and trailing whitespace
\* included.
C10_KwargsForwardMessage ==
  \A r \in Requests :
    \A i \in DOMAIN provider_calls[r] :
      LET k == provider_calls[r][i]
      IN  /\ k["model"] = LLM_MODEL
          /\ k["api_key"] = LLM_API_KEY
          /\ k["messages"] = <<[role |-> "user", content |-> message[r]]>>

C10_PaddedMessageForwarded ==
  \E r \in Requests :
    /\ provider_calls[r] # <<>>
    /\ message[r] \in {<<" ", "H">>, <<"H", " ">>}

====
